---- MODULE Spec2Model ----
(***************************************************************************)
(* Order execution engine: the order pipeline (OrderQueue.processOrder run *)
(* as a BullMQ job with retries), the persisted order / order_history      *)
(* tables, and the WebSocket status distributor of index.ts.               *)
(*                                                                         *)
(* Units.  Prices and slippage are in basis points of 1.0 (1.0 = 10000,    *)
(* 0.01 = 100); token amounts produced by a quote are in 1e-4 token units  *)
(* (amount * price); executed prices are in 1e-8 (price * (10000 + bp)).   *)
(* Every Math.random() draw is an input chosen from a small set.           *)
(***************************************************************************)
EXTENDS Integers, Sequences, FiniteSets, TLC

\* ---------------------------------------------------------------- bounds
MaxOrders == 2
NumHandles == 1
MaxDbFaults == 1
LogAll == 64
TicksPerWindow == 2
MaxTicks == 3
TimeStep == 500
\* a run that records the last message sent on a channel only
LastOnly == 1

\* ------------------------------------------------------ program constants
MaxRetries == 3
MaxConcurrent == 10
RateLimit == 100
LimiterDuration == 60000
HttpMax == 100
Created == 201
BadRequest == 400
TooMany == 429
BackoffDelay == 1000
GraceMs == 2000
DefaultSlippage == 100
RaydiumFeeBp == 30
MeteoraFeeBp == 20
OPEN == 1
CLOSING == 2
CLOSED == 3

OrderIds == 1..MaxOrders
Handles == 1..NumHandles
\* an identifier intake never issues (a client may still ask for it)
GhostId == 0

VARIABLES
  orders,       \* table orders: id -> row
  history,      \* table order_history: id -> rows in insertion order
  job,          \* BullMQ job of each order
  pc,           \* where processOrder of each order stands
  cur,          \* locals of the running processOrder
  emitted,      \* every 'orderUpdate' event emitted so far, per order
  connections,  \* index.ts: Map orderId -> connection
  sock,         \* every channel opened so far: handle -> socket
  inbox,        \* messages sent on each channel, in order
  snap,         \* the getOrderStatus().then(...) of each connect
  timers,       \* pending teardown setTimeout callbacks, in firing order
  faultsLeft,   \* persistence writes that may still fail in this run
  scn,          \* the scenario of the run (never changes)
  oracle,       \* twin runs: the venue / executor draws made so far
  drawn,        \* twin runs: draws consumed by each order
  rate,         \* the clock, the rate limiters and the last HTTP reply
  call,         \* the last call of a DexRouter method made on its own
  fetch         \* the getAllQuotes call in flight: its two venue requests

vars == <<orders, history, job, pc, cur, emitted, connections, sock, inbox,
          snap, timers, faultsLeft, scn, oracle, drawn, rate, call, fetch>>
pipeVars ==
  <<orders, history, job, pc, cur, emitted, faultsLeft, oracle, drawn, rate, call, fetch>>
subVars == <<connections, sock, inbox, snap, timers>>

\* ------------------------------------------------------------ data model
Terminal == {"confirmed", "failed"}

NoQuote == [dex |-> "-", price |-> 0, fee |-> 0, amountOut |-> 0, estimatedGas |-> 0]
NoResult == [txHash |-> "-", executedPrice |-> 0, amountOut |-> 0]
EmptyData ==
  [quotes |-> <<>>, selectedQuote |-> NoQuote, dex |-> "-", txHash |-> "-",
   executedPrice |-> 0, amountOut |-> 0, error |-> "-", retryAttempt |-> -1]

\* an OrderStatusUpdate; epoch stands for its timestamp: the number of the
\* attempt during which new Date() was taken
Update(o, status, epoch, data) ==
  [orderId |-> o, status |-> status, epoch |-> epoch, data |-> data]
NoUpdate == Update(0, "-", 0, EmptyData)

Last(s) == s[Len(s)]
IsPrefix(s, t) == Len(s) <= Len(t) /\ SubSeq(t, 1, Len(s)) = s

\* ------------------------------------------------------------ dex-router
\* a validation that lets an amount of 0 through
validateOrderM(tokenIn, tokenOut, amount, slippage) ==
  IF tokenIn = "" \/ tokenOut = "" THEN "Invalid token addresses"
  ELSE IF tokenIn = tokenOut THEN "Cannot swap same token"
  ELSE IF amount < 0 THEN "Amount must be greater than 0"
  ELSE IF slippage < 0 \/ slippage > 10000 THEN "Slippage must be between 0 and 1"
  ELSE "ok"

\* validateOrder: the message of the Error it throws, or "ok"
validateOrder(tokenIn, tokenOut, amount, slippage) ==
  IF tokenIn = "" \/ tokenOut = "" THEN "Invalid token addresses"
  ELSE IF tokenIn = tokenOut THEN "Cannot swap same token"
  ELSE IF amount <= 0 THEN "Amount must be greater than 0"
  ELSE IF slippage < 0 \/ slippage > 10000 THEN "Slippage must be between 0 and 1"
  ELSE "ok"

\* getRaydiumQuote: d.rp is the price draw (0.98 + random*0.04, in bp above
\* 9800), d.rg the gas draw (floor(random*2000))
getRaydiumQuote(amount, d) ==
  LET price == 9800 + d.rp
      fee == amount * RaydiumFeeBp
  IN [dex |-> "raydium", price |-> price, fee |-> fee,
      amountOut |-> amount * price - fee, estimatedGas |-> 5000 + d.rg]

\* a Meteora quote that charges the fee rate of Raydium
getMeteorQuoteM(amount, d) ==
  LET price == 9700 + d.mp
      fee == amount * RaydiumFeeBp
  IN [dex |-> "meteora", price |-> price, fee |-> fee,
      amountOut |-> amount * price - fee, estimatedGas |-> 4500 + d.mg]

\* getMeteorQuote: 0.97 + random*0.05, gas 4500 + floor(random*2000)
getMeteorQuote(amount, d) ==
  LET price == 9700 + d.mp
      fee == amount * MeteoraFeeBp
  IN [dex |-> "meteora", price |-> price, fee |-> fee,
      amountOut |-> amount * price - fee, estimatedGas |-> 4500 + d.mg]

\* getAllQuotes: Promise.all of the two venues, Raydium first
getAllQuotes(amount, d) == <<getRaydiumQuote(amount, d), getMeteorQuote(amount, d)>>

\* amountOut - estimatedGas, the number selectBestQuote compares (amountOut is
\* kept in 1e-4 units, so the gas is scaled to the same unit)
Net(q) == q.amountOut - q.estimatedGas * 10000

\* a reduce that prefers the later of two equal quotes
RECURSIVE ReduceM(_, _, _)
ReduceM(quotes, i, best) ==
  IF i > Len(quotes) THEN best
  ELSE ReduceM(quotes, i + 1, IF Net(quotes[i]) >= Net(best) THEN quotes[i] ELSE best)

RECURSIVE Reduce(_, _, _)
Reduce(quotes, i, best) ==
  IF i > Len(quotes) THEN best
  ELSE Reduce(quotes, i + 1, IF Net(quotes[i]) > Net(best) THEN quotes[i] ELSE best)

\* a router that always takes the first venue's quote
selectBestQuoteM(quotes) ==
  IF Len(quotes) = 0 THEN NoQuote ELSE quotes[1]

\* selectBestQuote: quotes.reduce(..., quotes[0]); NoQuote stands for the
\* 'No quotes available' error of the empty list
selectBestQuote(quotes) ==
  IF Len(quotes) = 0 THEN NoQuote ELSE Reduce(quotes, 1, quotes[1])

\* executeSwap: d.pc is the price movement draw in bp (random*0.02 - 0.01),
\* d.tx the generated hash
\* a check that guards movement in both directions
SlippageExceededM(quote, slippage, d) ==
  \/ quote.price * (10000 + d.pc) < quote.price * (10000 - slippage)
  \/ quote.price * (10000 + d.pc) > quote.price * (10000 + slippage)

SlippageExceeded(quote, slippage, d) ==
  quote.price * (10000 + d.pc) < quote.price * (10000 - slippage)

\* a price movement drawn from [0, 2%) instead of [-1%, 1%)
executeSwapM(amount, quote, slippage, d) ==
  LET executedPrice == quote.price * (10000 + d.pc + 100)
  IN [txHash |-> d.tx, executedPrice |-> executedPrice,
      amountOut |-> amount * executedPrice - quote.fee * 10000]

executeSwap(amount, quote, slippage, d) ==
  LET executedPrice == quote.price * (10000 + d.pc)
  IN [txHash |-> d.tx, executedPrice |-> executedPrice,
      amountOut |-> amount * executedPrice - quote.fee * 10000]

\* a call of a router method: its arguments, and what it returns or throws
Returned(op, args, value) == [op |-> op, args |-> args, ok |-> TRUE, out |-> value]
Thrown(op, args, message) == [op |-> op, args |-> args, ok |-> FALSE, out |-> message]
NoCall == Returned("-", <<>>, 0)

\* getAllQuotes in flight. The venues in the order of the array handed to
\* Promise.all, and the delays of their simulated requests in ms
\* (150 + random*100)
Venues == <<"raydium", "meteora">>
Delays == {150, 200, 249}

\* the two requests made one after the other: the second is made when the
\* first has answered
StartAllM(delays) ==
  [i \in 1..2 |->
     [venue |-> Venues[i], startedAt |-> IF i = 1 THEN 0 ELSE delays[1],
      delay |-> delays[i], due |-> IF i = 1 THEN delays[1] ELSE delays[1] + delays[2],
      state |-> "pending", value |-> NoQuote]]

\* the array literal of Promise.all: each method is called in turn and runs to
\* its await sleep(...), so both timers are set at the time of the call
StartAll(delays) ==
  [i \in 1..2 |->
     [venue |-> Venues[i], startedAt |-> 0, delay |-> delays[i], due |-> delays[i],
      state |-> "pending", value |-> NoQuote]]

NoFetch ==
  [phase |-> "idle", now |-> 0, amount |-> 0, fails |-> {}, req |-> <<>>,
   d |-> [rp |-> 0, rg |-> 0, mp |-> 0, mg |-> 0, pc |-> 0, tx |-> "-"],
   settledAt |-> 0, out |-> <<>>, error |-> ""]

\* what a venue's method resolves to once its sleep is over
VenueQuote(i, amount, d) ==
  IF i = 1 THEN getRaydiumQuote(amount, d) ELSE getMeteorQuote(amount, d)

Pending(f) == {i \in 1..Len(f.req) : f.req[i].state = "pending"}

\* Promise.all and the code after the await: rejected with the first rejection,
\* fulfilled with the values in the order of the array once every promise is;
\* getAllQuotes then returns [raydiumQuote, meteoraQuote]
PromiseAll(f) ==
  IF f.phase # "waiting" THEN f
  ELSE IF \E i \in 1..2 : f.req[i].state = "rejected"
  THEN [f EXCEPT !.phase = "thrown", !.settledAt = f.now, !.error = "venue unavailable"]
  ELSE IF Pending(f) = {}
  THEN [f EXCEPT !.phase = "returned", !.settledAt = f.now,
                 !.out = <<f.req[1].value, f.req[2].value>>]
  ELSE f

\* ---------------------------------------------------------------- inputs
\* the random draws of one attempt: a quote round or a swap
QuoteDraws ==
  { [rp |-> 200, rg |-> 0, mp |-> 300, mg |-> 1900, pc |-> 0, tx |-> "-"],
    [rp |-> 0, rg |-> 1999, mp |-> 499, mg |-> 0, pc |-> 0, tx |-> "-"] }
\* a price that can move against the order by more than 1%
SwapDrawsM ==
  { [rp |-> 0, rg |-> 0, mp |-> 0, mg |-> 0, pc |-> p, tx |-> t] :
      p \in {-101, 0, 99}, t \in {"txA"} }
SwapDraws ==
  { [rp |-> 0, rg |-> 0, mp |-> 0, mg |-> 0, pc |-> p, tx |-> t] :
      p \in {-100, 0, 99}, t \in {"txA"} }

\* the order requests a client posts (type, tokens, amount, slippage, wallet);
\* amounts stay small so that amount * executedPrice fits TLC's integers
Request(tokenIn, tokenOut, amountIn, hasSlippage, slippage) ==
  [type |-> "market", tokenIn |-> tokenIn, tokenOut |-> tokenOut,
   amountIn |-> amountIn, hasSlippage |-> hasSlippage, slippage |-> slippage,
   walletAddress |-> "w"]
ReqDefault == Request("SOL", "USDC", 10, FALSE, 0)    \* default slippage 0.01
ReqNoTolerance == Request("SOL", "USDC", 10, TRUE, 0) \* a swap can fail
ReqSameToken == Request("SOL", "SOL", 10, TRUE, 100)  \* validateOrder throws
ReqNegative == Request("SOL", "USDC", -5, TRUE, 100)  \* validateOrder throws
Requests == {ReqDefault, ReqNoTolerance, ReqSameToken, ReqNegative}
ReqNoWallet == [ReqDefault EXCEPT !.walletAddress = ""] \* answered 400
NoRequest == Request("-", "-", 0, FALSE, 0)

ValidOrder(ord) ==
  validateOrder(ord.tokenIn, ord.tokenOut, ord.amountIn, ord.slippage) = "ok"

\* ------------------------------------------------- payloads of the updates
\* a routing decision published without the list it was taken from
DataRoutingM(quotes, best) ==
  [EmptyData EXCEPT !.selectedQuote = best, !.dex = best.dex]

\* { quotes, selectedQuote: bestQuote, dex: bestQuote.dex }
DataRouting(quotes, best) ==
  [EmptyData EXCEPT !.quotes = quotes, !.selectedQuote = best, !.dex = best.dex]
DataBuilding(best) == [EmptyData EXCEPT !.dex = best.dex]
DataSubmitted(best, result) ==
  [EmptyData EXCEPT !.dex = best.dex, !.txHash = result.txHash]
DataConfirmed(best, result) ==
  [EmptyData EXCEPT !.dex = best.dex, !.txHash = result.txHash,
                    !.executedPrice = result.executedPrice,
                    !.amountOut = result.amountOut]
DataFailed(message, attemptsMade) ==
  [EmptyData EXCEPT !.error = message, !.retryAttempt = attemptsMade]

\* the locals of processOrder before it has run
NoLocals ==
  [quotes |-> <<>>, bestQuote |-> NoQuote, result |-> NoResult,
   error |-> "-", thrown |-> "-", update |-> NoUpdate]
Idle == [site |-> "-", at |-> "idle"]

\* a wrong status at the second routing call site
SiteStatusM(site) == IF site = "routingQ" THEN "building" ELSE site

\* the status written by each updateStatus call of processOrder; "routingQ"
\* is the second routing call, the one that carries the quotes
SiteStatus(site) == IF site = "routingQ" THEN "routing" ELSE site

Epoch(o) == job[o].attemptsStarted

\* ------------------------------------------------------ status distributor
\* the messages sent on a channel; hasData tells the relayed update (which
\* has a data key) from the current-status message sent after connect
StatusMsg(u) ==
  [type |-> "status", orderId |-> u.orderId, status |-> u.status,
   epoch |-> u.epoch, hasData |-> TRUE, data |-> u.data]
PlainMsg(type, o) ==
  [type |-> type, orderId |-> o, status |-> "-", epoch |-> 0,
   hasData |-> FALSE, data |-> EmptyData]
SnapshotMsg(o, status) ==
  [type |-> "status", orderId |-> o, status |-> status, epoch |-> 0,
   hasData |-> FALSE, data |-> EmptyData]

Registered(o) == o \in DOMAIN connections
\* the record of a channel after one more message was sent on it
Record(log, m) ==
  IF scn.window = 0 THEN log
  ELSE IF Len(log) < scn.window THEN Append(log, m)
  ELSE Append(Tail(log), m)
IsOpen(h) == h \in DOMAIN sock /\ sock[h].readyState = OPEN

\* a relay that sends the update on every open channel of the order
OnOrderUpdateM(u) ==
  /\ inbox' = [h \in DOMAIN inbox |->
                 IF sock[h].orderId = u.orderId /\ IsOpen(h)
                 THEN Record(inbox[h], StatusMsg(u)) ELSE inbox[h]]
  /\ UNCHANGED timers

\* orderQueue.on('orderUpdate'): relay to the registered connection when its
\* socket is open, and schedule the teardown after a final status
OnOrderUpdate(u) ==
  IF Registered(u.orderId) /\ IsOpen(connections[u.orderId])
  THEN LET h == connections[u.orderId] IN
       /\ inbox' = [inbox EXCEPT ![h] = Record(@, StatusMsg(u))]
       /\ timers' = IF u.status \in Terminal
                    THEN Append(timers, [orderId |-> u.orderId, conn |-> h, after |-> GraceMs])
                    ELSE timers
  ELSE UNCHANGED <<inbox, timers>>

\* emitStatusUpdate: this.emit('orderUpdate', update), listeners run inline
emitStatusUpdate(u) ==
  /\ emitted' = [emitted EXCEPT ![u.orderId] = Append(@, u)]
  /\ OnOrderUpdate(u)
  /\ UNCHANGED <<connections, sock, snap>>

\* ------------------------------------------------------- twin-run draws
\* In a twin run two orders get the same venue and executor outcomes: the
\* first to reach a draw makes it, the other one replays it.
Draws(o, S) ==
  IF scn.twin /\ drawn[o] < Len(oracle) THEN {oracle[drawn[o] + 1]} ELSE S
Consume(o, d) ==
  /\ oracle' = IF scn.twin /\ drawn[o] = Len(oracle) THEN Append(oracle, d) ELSE oracle
  /\ drawn' = IF scn.twin THEN [drawn EXCEPT ![o] = @ + 1] ELSE drawn

\* ----------------------------------------------------------------- intake
\* POST /api/orders/execute: the request checks of the handler
IntakeAccepts(req) ==
  /\ req.tokenIn # "" /\ req.tokenOut # "" /\ req.amountIn # 0
  /\ req.walletAddress # ""
  /\ req.type = "market"

NewOrder(id, req) ==
  [id |-> id, type |-> req.type, tokenIn |-> req.tokenIn, tokenOut |-> req.tokenOut,
   amountIn |-> req.amountIn,
   slippage |-> IF req.hasSlippage THEN req.slippage ELSE DefaultSlippage,
   walletAddress |-> req.walletAddress, status |-> "pending"]

\* an identifier that is not fresh
NextIdM == IF DOMAIN orders = {} THEN 1 ELSE Cardinality(DOMAIN orders)
\* uuidv4(): orders are numbered in the order they are created
NextId == Cardinality(DOMAIN orders) + 1

\* app.register(rateLimit, { max: 100, timeWindow: '1 minute' }): the requests
\* of a client are counted from its first one, for one minute; past max they
\* are answered 429 before they reach a handler
HttpLimited == rate.hits >= HttpMax
Answered(req, code) ==
  [rate EXCEPT !.hits = IF HttpLimited THEN @ ELSE @ + 1,
               !.hitsExpire = IF rate.hits = 0 THEN rate.now + TicksPerWindow ELSE @,
               !.reply = [req |-> req, code |-> code]]

\* the handler: createOrder, then addOrder (queue.add with jobId = order.id)
Intake(req) ==
  /\ NextId <= scn.orders
  /\ ~HttpLimited
  /\ IntakeAccepts(req)
  /\ rate' = Answered(req, Created)
  /\ scn.twin /\ NextId > 1 =>
       /\ NewOrder(1, req) = [orders[1] EXCEPT !.status = "pending"]
       /\ job[1].state \in {"completed", "failed"}
  /\ orders' = [x \in DOMAIN orders \cup {NextId} |->
                  IF x = NextId THEN NewOrder(NextId, req) ELSE orders[x]]
  /\ job' = [job EXCEPT ![NextId].state = "waiting"]
  /\ UNCHANGED <<history, pc, cur, emitted, faultsLeft, scn, oracle, drawn, call, fetch>>
  /\ UNCHANGED subVars

\* the handler answers 400: a field is missing or the type is not market
IntakeRejects(req) ==
  /\ ~HttpLimited
  /\ ~IntakeAccepts(req)
  /\ rate' = Answered(req, BadRequest)
  /\ UNCHANGED <<orders, history, job, pc, cur, emitted, faultsLeft, scn, oracle, drawn, call, fetch>>
  /\ UNCHANGED subVars

\* the rate limit plugin answers 429
TooManyRequests(req) ==
  /\ HttpLimited
  /\ rate' = Answered(req, TooMany)
  /\ UNCHANGED <<orders, history, job, pc, cur, emitted, faultsLeft, scn, oracle, drawn, call, fetch>>
  /\ UNCHANGED subVars

\* ------------------------------------------------------------- the worker
Active == {o \in OrderIds : job[o].state = "active"}

\* updateStatus(orderId, status, data) is entered: the update is built and
\* database.updateOrderStatus is awaited
CallUpdateStatus(o, site, data, locals) ==
  /\ pc' = [pc EXCEPT ![o] = [site |-> site, at |-> "status"]]
  /\ cur' = [cur EXCEPT ![o] =
               [locals EXCEPT !.update = Update(o, SiteStatus(site), Epoch(o), data)]]

\* a catch that reports 'Unknown error' whatever was thrown
ThrowM(o, message) ==
  IF pc[o].site # "failed"
  THEN CallUpdateStatus(o, "failed", DataFailed("Unknown error", job[o].attemptsMade),
                        [cur[o] EXCEPT !.error = message])
  ELSE /\ pc' = [pc EXCEPT ![o] = [site |-> "failed", at |-> "thrown"]]
       /\ cur' = [cur EXCEPT ![o].thrown = message]

\* an Error is thrown inside processOrder: in the try block the catch takes
\* it and reports failed; thrown by the catch's own updateStatus, it leaves
\* processOrder as it is
Throw(o, message) ==
  IF pc[o].site # "failed"
  THEN CallUpdateStatus(o, "failed", DataFailed(message, job[o].attemptsMade),
                        [cur[o] EXCEPT !.error = message])
  ELSE /\ pc' = [pc EXCEPT ![o] = [site |-> "failed", at |-> "thrown"]]
       /\ cur' = [cur EXCEPT ![o].thrown = message]

\* limiter: { max, duration: 60000 }.  The queue counts the jobs it moves to
\* active under a key that it creates, with the duration as its time to live,
\* when it counts the first one; while the count has reached max no job is
\* moved to active.  Time passes in ticks of LimiterDuration / TicksPerWindow.
RateLimited == rate.count >= scn.rate
Counted ==
  [rate EXCEPT !.count = @ + 1,
               !.expires = IF rate.count = 0 THEN rate.now + TicksPerWindow ELSE @,
               !.starts = IF scn.timed THEN Append(@, rate.now) ELSE @]

\* time passes: one tick, at which the limiter's key expires if it is due
Tick ==
  /\ scn.timed
  /\ rate.now < MaxTicks
  /\ rate' = [rate EXCEPT !.now = @ + 1,
                          !.count = IF rate.now + 1 >= rate.expires THEN 0 ELSE @,
                          !.hits = IF rate.now + 1 >= rate.hitsExpire THEN 0 ELSE @]
  /\ UNCHANGED <<orders, history, job, pc, cur, emitted, faultsLeft, scn, oracle, drawn, call, fetch>>
  /\ UNCHANGED subVars

\* a worker that takes a job only when no other job is running
StartAttemptM(o) ==
  /\ job[o].state = "waiting"
  /\ Active = {}
  /\ rate' = Counted
  /\ job' = [job EXCEPT ![o].state = "active", ![o].attemptsStarted = @ + 1]
  /\ pc' = [pc EXCEPT ![o] = [site |-> "pending", at |-> "status"]]
  /\ cur' = [cur EXCEPT ![o] =
               [NoLocals EXCEPT !.update =
                  Update(o, "pending", job[o].attemptsStarted + 1, EmptyData)]]
  /\ UNCHANGED <<orders, history, emitted, faultsLeft, scn, oracle, drawn, call, fetch>>
  /\ UNCHANGED subVars

\* the worker takes the job and calls processOrder, which starts with
\* updateStatus(PENDING)
StartAttempt(o) ==
  /\ job[o].state = "waiting"
  /\ Cardinality(Active) < scn.concurrency
  /\ ~RateLimited
  /\ rate' = Counted
  /\ job' = [job EXCEPT ![o].state = "active", ![o].attemptsStarted = @ + 1]
  /\ pc' = [pc EXCEPT ![o] = [site |-> "pending", at |-> "status"]]
  /\ cur' = [cur EXCEPT ![o] =
               [NoLocals EXCEPT !.update =
                  Update(o, "pending", job[o].attemptsStarted + 1, EmptyData)]]
  /\ UNCHANGED <<orders, history, emitted, faultsLeft, scn, oracle, drawn, call, fetch>>
  /\ UNCHANGED subVars

\* a delayed job that is dropped instead of being queued again
PromoteDelayedM(o) ==
  /\ job[o].state = "delayed"
  /\ job' = [job EXCEPT ![o].state = "lost"]
  /\ UNCHANGED <<orders, history, pc, cur, emitted, faultsLeft, scn, oracle, drawn, rate, call, fetch>>
  /\ UNCHANGED subVars

\* the backoff delay of a delayed job has elapsed (job.waited is the time
\* since it was delayed, in the runs where time is counted)
PromoteDelayed(o) ==
  /\ job[o].state = "delayed"
  /\ scn.clocked => job[o].waited >= job[o].backoff
  /\ job' = [job EXCEPT ![o].state = "waiting", ![o].backoff = 0, ![o].waited = 0]
  /\ UNCHANGED <<orders, history, pc, cur, emitted, faultsLeft, scn, oracle, drawn, rate, call, fetch>>
  /\ UNCHANGED subVars

DbOutcomes == IF faultsLeft > 0 THEN {TRUE, FALSE} ELSE {TRUE}

\* an UPDATE that writes the status into the type column as well
UpdateOrderStatusM(o, ok) ==
  /\ pc[o].at = "status"
  /\ orders' = [orders EXCEPT ![o].status = cur[o].update.status,
                              ![o].type = cur[o].update.status]
  /\ pc' = [pc EXCEPT ![o].at = "history"]
  /\ UNCHANGED <<cur, faultsLeft>>
  /\ UNCHANGED <<history, job, emitted, scn, oracle, drawn, rate, call, fetch>>
  /\ UNCHANGED subVars

\* database.updateOrderStatus: UPDATE orders SET status (or the query fails)
UpdateOrderStatus(o, ok) ==
  /\ pc[o].at = "status"
  /\ IF ok
     THEN /\ orders' = [orders EXCEPT ![o].status = cur[o].update.status]
          /\ pc' = [pc EXCEPT ![o].at = "history"]
          /\ UNCHANGED <<cur, faultsLeft>>
     ELSE /\ Throw(o, "db error")
          /\ faultsLeft' = faultsLeft - 1
          /\ UNCHANGED orders
  /\ UNCHANGED <<history, job, emitted, scn, oracle, drawn, rate, call, fetch>>
  /\ UNCHANGED subVars

\* database.addOrderHistory: INSERT INTO order_history (or the query fails)
AddOrderHistory(o, ok) ==
  /\ pc[o].at = "history"
  /\ IF ok
     THEN /\ history' = [history EXCEPT ![o] = Append(@, cur[o].update)]
          /\ pc' = [pc EXCEPT ![o].at = "emit"]
          /\ UNCHANGED <<cur, faultsLeft>>
     ELSE /\ Throw(o, "db error")
          /\ faultsLeft' = faultsLeft - 1
          /\ UNCHANGED history
  /\ UNCHANGED <<orders, job, emitted, scn, oracle, drawn, rate, call, fetch>>
  /\ UNCHANGED subVars

\* an error raised in the try block after the confirmation
AfterConfirmedM(o) == Throw(o, "late error")

\* after updateStatus(CONFIRMED) the try block ends and processOrder returns
AfterConfirmed(o) ==
  pc' = [pc EXCEPT ![o].at = "returned"] /\ UNCHANGED cur

\* an updateStatus call that fails when the order has a subscriber
ResumeM(o) ==
  IF Registered(o) THEN Throw(o, "send failed")
  ELSE pc' = [pc EXCEPT ![o].at = "returned"] /\ UNCHANGED cur

\* processOrder after an updateStatus call has returned, up to its next await
Resume(o) ==
  LET site == pc[o].site
      ord == orders[o]
  IN CASE site = "pending" ->
            LET message == validateOrder(ord.tokenIn, ord.tokenOut, ord.amountIn, ord.slippage)
            IN IF message # "ok" THEN Throw(o, message)
               ELSE CallUpdateStatus(o, "routing", EmptyData, cur[o])
       [] site = "routing" ->
            pc' = [pc EXCEPT ![o].at = "quotes"] /\ UNCHANGED cur
       [] site = "routingQ" ->
            CallUpdateStatus(o, "building", DataBuilding(cur[o].bestQuote), cur[o])
       [] site = "building" ->
            pc' = [pc EXCEPT ![o].at = "swap"] /\ UNCHANGED cur
       [] site = "submitted" ->
            pc' = [pc EXCEPT ![o].at = "confirmWait"] /\ UNCHANGED cur
       [] site = "confirmed" -> AfterConfirmed(o)
       [] site = "failed" ->
            /\ pc' = [pc EXCEPT ![o].at = "thrown"]
            /\ cur' = [cur EXCEPT ![o].thrown = cur[o].error]

\* updateStatus after both writes: emit the update, then processOrder goes on
EmitUpdate(o) ==
  /\ pc[o].at = "emit"
  /\ emitStatusUpdate(cur[o].update)
  /\ Resume(o)
  /\ UNCHANGED <<orders, history, job, faultsLeft, scn, oracle, drawn, rate, call, fetch>>

\* a quoting stage that asks the venues a second time before it goes on
GetAllQuotesM(o, d) ==
  /\ pc[o].at = "quotes"
  /\ LET quotes == getAllQuotes(orders[o].amountIn, d)
         best == selectBestQuote(quotes)
     IN IF cur[o].quotes = <<>>
        THEN cur' = [cur EXCEPT ![o].quotes = quotes] /\ UNCHANGED pc
        ELSE CallUpdateStatus(o, "routingQ", DataRouting(quotes, best),
                              [cur[o] EXCEPT !.quotes = quotes, !.bestQuote = best])
  /\ Consume(o, d)
  /\ UNCHANGED <<orders, history, job, emitted, faultsLeft, scn, rate, call, fetch>>
  /\ UNCHANGED subVars

\* await dexRouter.getAllQuotes, selectBestQuote, updateStatus(ROUTING, quotes)
GetAllQuotes(o, d) ==
  /\ pc[o].at = "quotes"
  /\ LET quotes == getAllQuotes(orders[o].amountIn, d)
         best == selectBestQuote(quotes)
     IN IF best = NoQuote THEN Throw(o, "No quotes available")
        ELSE CallUpdateStatus(o, "routingQ", DataRouting(quotes, best),
                              [cur[o] EXCEPT !.quotes = quotes, !.bestQuote = best])
  /\ Consume(o, d)
  /\ UNCHANGED <<orders, history, job, emitted, faultsLeft, scn, rate, call, fetch>>
  /\ UNCHANGED subVars

\* a swap executed on the first quote of the list, not on the selected one
ExecuteSwapM(o, d) ==
  /\ pc[o].at = "swap"
  /\ LET best == cur[o].quotes[1]
         result == executeSwap(orders[o].amountIn, best, orders[o].slippage, d)
     IN IF SlippageExceeded(best, orders[o].slippage, d)
        THEN Throw(o, "Slippage tolerance exceeded")
        ELSE CallUpdateStatus(o, "submitted", DataSubmitted(cur[o].bestQuote, result),
                              [cur[o] EXCEPT !.result = result])
  /\ Consume(o, d)
  /\ UNCHANGED <<orders, history, job, emitted, faultsLeft, scn, rate, call, fetch>>
  /\ UNCHANGED subVars

\* await dexRouter.executeSwap, then updateStatus(SUBMITTED)
ExecuteSwap(o, d) ==
  /\ pc[o].at = "swap"
  /\ LET best == cur[o].bestQuote
         result == executeSwap(orders[o].amountIn, best, orders[o].slippage, d)
     IN IF SlippageExceeded(best, orders[o].slippage, d)
        THEN Throw(o, "Slippage tolerance exceeded")
        ELSE CallUpdateStatus(o, "submitted", DataSubmitted(best, result),
                              [cur[o] EXCEPT !.result = result])
  /\ Consume(o, d)
  /\ UNCHANGED <<orders, history, job, emitted, faultsLeft, scn, rate, call, fetch>>
  /\ UNCHANGED subVars

\* the confirmation delay has elapsed: updateStatus(CONFIRMED)
ConfirmDelay(o) ==
  /\ pc[o].at = "confirmWait"
  /\ CallUpdateStatus(o, "confirmed",
                      DataConfirmed(cur[o].bestQuote, cur[o].result), cur[o])
  /\ UNCHANGED <<orders, history, job, emitted, faultsLeft, scn, oracle, drawn, rate, call, fetch>>
  /\ UNCHANGED subVars

\* a job that is queued again after processOrder has returned
JobCompletedM(o) ==
  /\ pc[o].at = "returned"
  /\ job' = [job EXCEPT ![o].state = IF job[o].attemptsMade + 1 < scn.attempts
                                     THEN "waiting" ELSE "completed",
                        ![o].attemptsMade = @ + 1]
  /\ pc' = [pc EXCEPT ![o] = Idle]
  /\ cur' = [cur EXCEPT ![o] = NoLocals]
  /\ UNCHANGED <<orders, history, emitted, faultsLeft, scn, oracle, drawn, rate, call, fetch>>
  /\ UNCHANGED subVars

\* processOrder returned: the job is completed ('completed' only logs)
JobCompleted(o) ==
  /\ pc[o].at = "returned"
  /\ job' = [job EXCEPT ![o].state = "completed", ![o].attemptsMade = @ + 1]
  /\ pc' = [pc EXCEPT ![o] = Idle]
  /\ cur' = [cur EXCEPT ![o] = NoLocals]
  /\ UNCHANGED <<orders, history, emitted, faultsLeft, scn, oracle, drawn, rate, call, fetch>>
  /\ UNCHANGED subVars

\* one retry too many
WillRetryM(attemptsMade) == attemptsMade <= scn.attempts

\* the queue retries a failed job while attemptsMade < attempts
WillRetry(attemptsMade) == attemptsMade < scn.attempts

RECURSIVE Pow2(_)
Pow2(n) == IF n <= 0 THEN 1 ELSE 2 * Pow2(n - 1)
\* backoff { type: 'exponential' } taken for a delay that grows by one base
\* delay per attempt
BackoffM(attemptsMade) == BackoffDelay * attemptsMade
\* backoff { type: 'exponential', delay: 1000 }
Backoff(attemptsMade) == BackoffDelay * Pow2(attemptsMade - 1)

\* processOrder rejected: the job moves to delayed (retry) or failed, and the
\* worker's 'failed' listener emits one more failed update
JobFailed(o) ==
  /\ pc[o].at = "thrown"
  /\ LET made == job[o].attemptsMade + 1 IN
     /\ job' = [job EXCEPT ![o].attemptsMade = made,
                           ![o].state = IF WillRetry(made) THEN "delayed" ELSE "failed",
                           ![o].backoff = IF WillRetry(made) THEN Backoff(made) ELSE 0]
     /\ emitStatusUpdate(Update(o, "failed", Epoch(o), DataFailed(cur[o].thrown, made)))
  /\ pc' = [pc EXCEPT ![o] = Idle]
  /\ cur' = [cur EXCEPT ![o] = NoLocals]
  /\ UNCHANGED <<orders, history, faultsLeft, scn, oracle, drawn, rate, call, fetch>>

\* ----------------------------------------------------- websocket channel
Unregister(o) == [x \in DOMAIN connections \ {o} |-> connections[x]]
\* connection.send: ws drops what is sent on a socket that is not open
Send(h, m) == IF IsOpen(h) THEN [inbox EXCEPT ![h] = Record(@, m)] ELSE inbox
\* socket.close(): an open socket starts closing
Close(h, by) ==
  IF IsOpen(h) THEN [sock EXCEPT ![h].readyState = CLOSING, ![h].closedBy = by] ELSE sock

NextHandle == Cardinality(DOMAIN sock) + 1
\* only a run that records more than the last message notes when a channel
\* was opened
Noted(o) == o \in OrderIds /\ scn.window > LastOnly

\* a registry that keeps one subscriber for all the orders
ConnectM(o) ==
  LET h == NextHandle IN
  /\ h <= scn.channels
  /\ o \in scn.watch
  /\ o \in DOMAIN orders \cup {GhostId}
  /\ connections' = [x \in DOMAIN orders \cup {o} |-> h]
  /\ sock' = [x \in DOMAIN sock \cup {h} |->
                IF x = h THEN [orderId |-> o, readyState |-> OPEN, closedBy |-> "-",
                               early |-> Noted(o) /\ job[o].attemptsStarted = 0,
                               from |-> IF Noted(o) THEN Len(emitted[o]) ELSE 0]
                ELSE sock[x]]
  /\ inbox' = [x \in DOMAIN inbox \cup {h} |->
                 IF x = h THEN Record(<<>>, PlainMsg("connected", o)) ELSE inbox[x]]
  /\ snap' = [x \in DOMAIN snap \cup {h} |->
                IF x = h THEN [phase |-> "query", found |-> FALSE, status |-> "-"]
                ELSE snap[x]]
  /\ UNCHANGED timers
  /\ UNCHANGED <<pipeVars, scn>>

\* GET /api/orders/execute/:orderId: register, confirm, ask for the status.
\* Beside the socket the model notes who closed it (closedBy), whether the
\* channel was opened before the first attempt started (early) and how many
\* updates had been emitted for the order by then (from).
Connect(o) ==
  LET h == NextHandle IN
  /\ h <= scn.channels
  /\ o \in scn.watch
  /\ o \in DOMAIN orders \cup {GhostId}
  /\ connections' = [x \in DOMAIN connections \cup {o} |->
                       IF x = o THEN h ELSE connections[x]]
  /\ sock' = [x \in DOMAIN sock \cup {h} |->
                IF x = h THEN [orderId |-> o, readyState |-> OPEN, closedBy |-> "-",
                               early |-> Noted(o) /\ job[o].attemptsStarted = 0,
                               from |-> IF Noted(o) THEN Len(emitted[o]) ELSE 0]
                ELSE sock[x]]
  /\ inbox' = [x \in DOMAIN inbox \cup {h} |->
                 IF x = h THEN Record(<<>>, PlainMsg("connected", o)) ELSE inbox[x]]
  /\ snap' = [x \in DOMAIN snap \cup {h} |->
                IF x = h THEN [phase |-> "query", found |-> FALSE, status |-> "-"]
                ELSE snap[x]]
  /\ UNCHANGED timers
  /\ UNCHANGED <<pipeVars, scn>>

\* database.getOrder of the connect handler runs
SnapshotQuery(h) ==
  /\ h \in DOMAIN snap /\ snap[h].phase = "query"
  /\ LET o == sock[h].orderId IN
     snap' = [snap EXCEPT ![h] =
                IF o \in DOMAIN orders
                THEN [phase |-> "reply", found |-> TRUE, status |-> orders[o].status]
                ELSE [phase |-> "reply", found |-> FALSE, status |-> "-"]]
  /\ UNCHANGED <<connections, sock, inbox, timers>>
  /\ UNCHANGED <<pipeVars, scn>>

\* a callback that reports the unknown order and leaves the socket open
SnapshotReplyM(h) ==
  /\ h \in DOMAIN snap /\ snap[h].phase = "reply"
  /\ LET o == sock[h].orderId IN
     inbox' = Send(h, IF snap[h].found THEN SnapshotMsg(o, snap[h].status)
                      ELSE PlainMsg("error", o))
  /\ snap' = [snap EXCEPT ![h] = [phase |-> "done", found |-> FALSE, status |-> "-"]]
  /\ UNCHANGED <<connections, sock, timers>>
  /\ UNCHANGED <<pipeVars, scn>>

\* its .then callback: the current status, or 'Order not found' and close
SnapshotReply(h) ==
  /\ h \in DOMAIN snap /\ snap[h].phase = "reply"
  /\ LET o == sock[h].orderId IN
     IF snap[h].found
     THEN /\ inbox' = Send(h, SnapshotMsg(o, snap[h].status))
          /\ UNCHANGED sock
     ELSE /\ inbox' = Send(h, PlainMsg("error", o))
          /\ sock' = Close(h, "server")
  /\ snap' = [snap EXCEPT ![h] = [phase |-> "done", found |-> FALSE, status |-> "-"]]
  /\ UNCHANGED <<connections, timers>>
  /\ UNCHANGED <<pipeVars, scn>>

\* the client closes its end of an open channel
ClientClose(h) ==
  /\ IsOpen(h)
  /\ sock' = Close(h, "client")
  /\ UNCHANGED <<connections, inbox, snap, timers>>
  /\ UNCHANGED <<pipeVars, scn>>

\* socket.on('close'): the closing handshake is over
OnClose(h) ==
  /\ h \in DOMAIN sock /\ sock[h].readyState = CLOSING
  /\ sock' = [sock EXCEPT ![h].readyState = CLOSED]
  /\ connections' = Unregister(sock[h].orderId)
  /\ UNCHANGED <<inbox, snap, timers>>
  /\ UNCHANGED <<pipeVars, scn>>

\* a teardown that unregisters only when it still finds the socket open
TeardownM ==
  /\ timers # <<>>
  /\ LET t == Head(timers) IN
     /\ inbox' = Send(t.conn, PlainMsg("complete", t.orderId))
     /\ sock' = Close(t.conn, "server")
     /\ connections' = IF IsOpen(t.conn) THEN Unregister(t.orderId) ELSE connections
  /\ timers' = Tail(timers)
  /\ UNCHANGED snap
  /\ UNCHANGED <<pipeVars, scn>>

\* the teardown callback scheduled by the 'orderUpdate' listener fires
Teardown ==
  /\ timers # <<>>
  /\ LET t == Head(timers) IN
     /\ inbox' = Send(t.conn, PlainMsg("complete", t.orderId))
     /\ sock' = Close(t.conn, "server")
     /\ connections' = Unregister(t.orderId)
  /\ timers' = Tail(timers)
  /\ UNCHANGED snap
  /\ UNCHANGED <<pipeVars, scn>>

\* ------------------------------------------------------- specifications
\* a scenario fixes what the environment of a run may do: how many orders are
\* posted and which requests, which orders clients open channels for and how
\* many channels, and the random draws of the venues and of the executor
\* window is how many of the last messages sent on a channel the run records
Scenario(n, twin, watch, channels, window, requests, quoteDraws, swapDraws) ==
  [orders |-> n, twin |-> twin, watch |-> watch, channels |-> channels,
   window |-> window, requests |-> requests, quoteDraws |-> quoteDraws,
   swapDraws |-> swapDraws,
   concurrency |-> MaxConcurrent, rate |-> RateLimit, timed |-> FALSE,
   failing |-> {}, attempts |-> MaxRetries, clocked |-> FALSE]

InitWith(scenario, faults) ==
  /\ orders = << >>
  /\ history = [o \in OrderIds |-> <<>>]
  /\ job = [o \in OrderIds |->
              [state |-> "none", attemptsStarted |-> 0, attemptsMade |-> 0, backoff |-> 0,
               waited |-> 0]]
  /\ pc = [o \in OrderIds |-> Idle]
  /\ cur = [o \in OrderIds |-> NoLocals]
  /\ emitted = [o \in OrderIds |-> <<>>]
  /\ connections = << >>
  /\ sock = << >>
  /\ inbox = << >>
  /\ snap = << >>
  /\ timers = <<>>
  /\ faultsLeft = faults
  /\ scn = scenario
  /\ oracle = <<>>
  /\ drawn = [o \in OrderIds |-> 0]
  /\ call = NoCall
  /\ fetch = NoFetch
  /\ rate = [now |-> 0, count |-> 0, expires |-> 0, starts |-> <<>>,
             hits |-> 0, hitsExpire |-> 0, reply |-> [req |-> NoRequest, code |-> 0]]

\* the steps of the worker and of the queue on one order's job
Work(o) ==
  \/ StartAttempt(o)
  \/ PromoteDelayed(o)
  \/ \E ok \in DbOutcomes : UpdateOrderStatus(o, ok)
  \/ \E ok \in DbOutcomes : AddOrderHistory(o, ok)
  \/ EmitUpdate(o)
  \/ \E d \in Draws(o, scn.quoteDraws) : GetAllQuotes(o, d)
  \/ \E d \in Draws(o, scn.swapDraws) : ExecuteSwap(o, d)
  \/ ConfirmDelay(o)
  \/ JobCompleted(o)
  \/ JobFailed(o)

Pipeline ==
  \/ \E req \in scn.requests : Intake(req)
  \/ \E o \in OrderIds : Work(o)

Clients ==
  \/ \E o \in OrderIds \cup {GhostId} : Connect(o)
  \/ \E h \in Handles :
       \/ SnapshotQuery(h)
       \/ SnapshotReply(h)
       \/ ClientClose(h)
       \/ OnClose(h)
  \/ Teardown

\* one order (default slippage, or rejected by validateOrder), the channels
\* opened for it or for an unknown identifier, persistence available
Init ==
  InitWith(Scenario(1, FALSE, {1, GhostId}, NumHandles, LogAll,
                    {ReqDefault, ReqSameToken},
                    QuoteDraws, SwapDraws), 0)
Next == Pipeline \/ Clients
Spec == Init /\ [][Next]_vars

\* one order, no subscriber, persistence writes may fail
InitDb ==
  InitWith(Scenario(1, FALSE, {}, 0, 0, Requests, QuoteDraws, SwapDraws), MaxDbFaults)
NextDb == Pipeline
SpecDb == InitDb /\ [][NextDb]_vars

\* twin run: an order runs to its end without any subscriber, then the same
\* request is posted again and runs with the same venue and executor outcomes
\* while clients open, replace and close channels for it
TwinWindow == 0
InitTwin ==
  InitWith(Scenario(2, TRUE, {2}, 2, TwinWindow, {ReqNoTolerance},
                    QuoteDraws, {d \in SwapDraws : d.pc <= 0}), 0)
NextTwin == Pipeline \/ Clients
SpecTwin == InitTwin /\ [][NextTwin]_vars

\* one order whose subscriber may be replaced by a second one; of each channel
\* the run records the last message sent
InitSwap ==
  InitWith(Scenario(1, FALSE, {1}, 2, LastOnly, {ReqDefault, ReqSameToken},
                    QuoteDraws, SwapDraws), 0)
NextSwap == Pipeline \/ Clients
SpecSwap == InitSwap /\ [][NextSwap]_vars

\* MaxOrders orders posted at any time, no subscriber; the worker pool takes
\* every job that is ready, every timer fires and every awaited call returns
FewSwapDraws == {d \in SwapDraws : d.pc <= 0}
FewQuoteDraws == {d \in QuoteDraws : d.rp > 0}
InitLive ==
  InitWith(Scenario(MaxOrders, FALSE, {}, 0, 0, {ReqNoTolerance},
                    FewQuoteDraws, FewSwapDraws), 0)
NextLive == Pipeline
Fairness == \A o \in OrderIds : WF_vars(Work(o))
SpecLive == InitLive /\ [][NextLive]_vars /\ Fairness

\* MaxOrders orders that validateOrder rejects, so that each is attempted
\* three times, under a Worker configured with concurrency 1 and a rate
\* ceiling of 2 (MAX_CONCURRENT_ORDERS, ORDER_RATE_LIMIT), while time passes
Configured(scenario, concurrency, ceiling) ==
  [scenario EXCEPT !.concurrency = concurrency, !.rate = ceiling, !.timed = TRUE]
InitRate ==
  InitWith(Configured(Scenario(MaxOrders, FALSE, {}, 0, 0, {ReqNoTolerance, ReqSameToken},
                               FewQuoteDraws, FewSwapDraws), 1, 2), 0)
NextRate == Pipeline \/ Tick
SpecRate == InitRate /\ [][NextRate]_vars

\* one client that posts requests without a wallet and a well-formed order,
\* within one minute
Gate ==
  \E req \in scn.requests : IntakeRejects(req) \/ TooManyRequests(req)
InitGate ==
  InitWith(Scenario(1, FALSE, {}, 0, 0, {ReqNoTolerance, ReqNoWallet},
                    FewQuoteDraws, FewSwapDraws), 0)
NextGate == Pipeline \/ Gate
SpecGate == InitGate /\ [][NextGate]_vars

\* ------------------------------------------------------ time and backoff
\* TimeStep ms pass for every delayed job whose delay is not over
Elapse ==
  /\ scn.clocked
  /\ \E o \in OrderIds : job[o].state = "delayed" /\ job[o].waited < job[o].backoff
  /\ job' = [o \in OrderIds |->
               IF job[o].state = "delayed" /\ job[o].waited < job[o].backoff
               THEN [job[o] EXCEPT !.waited = @ + TimeStep] ELSE job[o]]
  /\ UNCHANGED <<orders, history, pc, cur, emitted, faultsLeft, scn, oracle, drawn,
                 rate, call, fetch>>
  /\ UNCHANGED subVars

\* one order under MAX_RETRIES = 4, so that three retries are made, with the
\* time since each failure counted
Retries(scenario, attempts) ==
  [scenario EXCEPT !.attempts = attempts, !.clocked = TRUE]
InitBackoff ==
  InitWith(Retries(Scenario(1, FALSE, {}, 0, 0, {ReqNoTolerance, ReqSameToken},
                            FewQuoteDraws, FewSwapDraws), MaxRetries + 1), 0)
NextBackoff == Pipeline \/ Elapse
SpecBackoff == InitBackoff /\ [][NextBackoff]_vars

\* ------------------------------------------------- two orders, one subscriber
\* MaxOrders orders processed side by side, each confirmed at once or
\* rejected by validateOrder in both of its attempts (MAX_RETRIES = 2), while
\* a client opens a channel for either of them and closes it, and teardowns
\* fire; the run records the last message sent on the channel
CrossAttempts == 2
Subscribers ==
  \/ \E o \in OrderIds : Connect(o)
  \/ \E h \in 1..scn.channels : SnapshotQuery(h)
  \/ \E h \in 1..scn.channels : SnapshotReply(h)
  \/ \E h \in 1..scn.channels : ClientClose(h)
  \/ \E h \in 1..scn.channels : OnClose(h)
  \/ Teardown
InitCross ==
  InitWith([Scenario(MaxOrders, FALSE, OrderIds, NumHandles, LastOnly,
                     {ReqDefault, ReqSameToken}, FewQuoteDraws,
                     {d \in SwapDraws : d.pc = 0})
              EXCEPT !.attempts = CrossAttempts], 0)
NextCross == Pipeline \/ Subscribers
SpecCross == InitCross /\ [][NextCross]_vars

\* ------------------------------------------------- reading the history
\* table order_history as a set of rows; created_at (CURRENT_TIMESTAMP of the
\* INSERT) is the rank of the insertion: the inserts of one order are apart
\* by at least one awaited statement
HistoryRows(o) ==
  {[created_at |-> i, order_id |-> o, status |-> history[o][i].status,
    data |-> history[o][i].data] : i \in 1..Len(history[o])}
FromRow(row) ==
  [orderId |-> row.order_id, status |-> row.status, timestamp |-> row.created_at,
   data |-> row.data]

\* ORDER BY created_at DESC
RECURSIVE OrderByCreatedAtM(_)
OrderByCreatedAtM(rows) ==
  IF rows = {} THEN <<>>
  ELSE LET row == CHOOSE r \in rows : \A x \in rows : r.created_at >= x.created_at
       IN <<row>> \o OrderByCreatedAtM(rows \ {row})

\* ORDER BY created_at ASC
RECURSIVE OrderByCreatedAt(_)
OrderByCreatedAt(rows) ==
  IF rows = {} THEN <<>>
  ELSE LET row == CHOOSE r \in rows : \A x \in rows : r.created_at <= x.created_at
       IN <<row>> \o OrderByCreatedAt(rows \ {row})

\* Database.getOrderHistory: SELECT ... WHERE order_id = $1 ORDER BY
\* created_at ASC, each row mapped to an update
getOrderHistory(o) ==
  LET rows == OrderByCreatedAt(HistoryRows(o))
  IN [i \in 1..Len(rows) |-> FromRow(rows[i])]

\* OrderQueue.getOrderHistory is called (by GET /api/orders/:orderId)
CallGetOrderHistory(o) ==
  /\ call' = Returned("getOrderHistory", o, getOrderHistory(o))
  /\ UNCHANGED <<orders, history, job, pc, cur, emitted, faultsLeft, scn, oracle,
                 drawn, rate, fetch>>
  /\ UNCHANGED subVars

\* one order whose history is read at any time while it is processed
InitRead ==
  InitWith(Scenario(1, FALSE, {}, 0, 0, {ReqNoTolerance, ReqSameToken},
                    FewQuoteDraws, FewSwapDraws), 0)
NextRead == Pipeline \/ \E o \in OrderIds : CallGetOrderHistory(o)
SpecRead == InitRead /\ [][NextRead]_vars

\* one order that runs while clients open channels for an identifier that no
\* order has
Lookups ==
  \/ Connect(GhostId)
  \/ \E h \in 1..scn.channels : SnapshotQuery(h)
  \/ \E h \in 1..scn.channels : SnapshotReply(h)
  \/ \E h \in 1..scn.channels : ClientClose(h)
  \/ \E h \in 1..scn.channels : OnClose(h)
InitGhost ==
  InitWith(Scenario(1, FALSE, {GhostId}, 2, LogAll, {ReqNoTolerance},
                    FewQuoteDraws, FewSwapDraws), 0)
NextGhost == Pipeline \/ Lookups
SpecGhost == InitGhost /\ [][NextGhost]_vars

\* ----------------------------------------- the router's methods on their own
\* the quotes, orders and draws the methods are called with
MaxQuotes == 3
Quote(dex, amountOut, estimatedGas) ==
  [dex |-> dex, price |-> 10000, fee |-> 0, amountOut |-> amountOut,
   estimatedGas |-> estimatedGas]
SampleQuotes ==
  { Quote("raydium", 100000, 5), Quote("meteora", 90000, 4),
    Quote("meteora", 100000, 4), Quote("raydium", 60000, 6) }
QuoteLists ==
  UNION { [1..n -> SampleQuotes] : n \in 0..MaxQuotes }
Tokens == {"", "SOL", "USDC"}
Amounts == {-5, 0, 10}
Slippages == {-1, 0, 50, 100, 10000, 10001}
PriceMoves == {-100, -51, -50, -1, 0, 1, 99}

CallSelectBestQuote(quotes) ==
  /\ call' = IF selectBestQuote(quotes) = NoQuote
             THEN Thrown("selectBestQuote", quotes, "No quotes available")
             ELSE Returned("selectBestQuote", quotes, selectBestQuote(quotes))
  /\ UNCHANGED <<orders, history, job, pc, cur, emitted, faultsLeft, scn, oracle,
                 drawn, rate, fetch>>
  /\ UNCHANGED subVars

CallValidateOrder(tokenIn, tokenOut, amount, slippage) ==
  /\ LET args == <<tokenIn, tokenOut, amount, slippage>>
         message == validateOrder(tokenIn, tokenOut, amount, slippage)
     IN call' = IF message = "ok" THEN Returned("validateOrder", args, "-")
                ELSE Thrown("validateOrder", args, message)
  /\ UNCHANGED <<orders, history, job, pc, cur, emitted, faultsLeft, scn, oracle,
                 drawn, rate, fetch>>
  /\ UNCHANGED subVars

CallExecuteSwap(amount, quote, slippage, d) ==
  /\ LET args == [amount |-> amount, quote |-> quote, slippage |-> slippage, d |-> d]
     IN call' = IF SlippageExceeded(quote, slippage, d)
                THEN Thrown("executeSwap", args, "Slippage tolerance exceeded")
                ELSE Returned("executeSwap", args, executeSwap(amount, quote, slippage, d))
  /\ UNCHANGED <<orders, history, job, pc, cur, emitted, faultsLeft, scn, oracle,
                 drawn, rate, fetch>>
  /\ UNCHANGED subVars

InitRouter ==
  InitWith(Scenario(0, FALSE, {}, 0, 0, {}, {}, {}), 0)
NextRouter ==
  \/ \E quotes \in QuoteLists : CallSelectBestQuote(quotes)
  \/ \E tokenIn \in Tokens, tokenOut \in Tokens, amount \in Amounts,
         slippage \in Slippages :
       CallValidateOrder(tokenIn, tokenOut, amount, slippage)
  \/ \E q \in {getRaydiumQuote(10, d) : d \in QuoteDraws}, slippage \in Slippages,
         p \in PriceMoves :
       /\ slippage \in 0..10000
       /\ CallExecuteSwap(10, q, slippage,
                          [rp |-> 0, rg |-> 0, mp |-> 0, mg |-> 0, pc |-> p, tx |-> "txA"])
SpecRouter == InitRouter /\ [][NextRouter]_vars

\* ------------------------------------------------ getAllQuotes step by step
\* getAllQuotes is called: both venue methods are called and Promise.all is
\* awaited. fails names the venues whose request will be rejected (none when
\* the venues are the simulated ones of dex-router.ts, which never reject)
CallGetAllQuotes(amount, d, delays, fails) ==
  /\ Pending(fetch) = {}
  /\ fails \subseteq scn.failing
  /\ fetch' = [NoFetch EXCEPT !.phase = "waiting", !.amount = amount, !.d = d,
                              !.fails = fails, !.req = StartAll(delays)]
  /\ UNCHANGED <<orders, history, job, pc, cur, emitted, faultsLeft, scn, oracle,
                 drawn, rate, call>>
  /\ UNCHANGED subVars

\* the sleep of venue i's request is over (the earliest timer fires first):
\* its promise settles, and Promise.all with it
VenueAnswers(i) ==
  /\ i \in Pending(fetch)
  /\ \A j \in Pending(fetch) : fetch.req[i].due <= fetch.req[j].due
  /\ LET settled ==
           IF i \in fetch.fails
           THEN [fetch.req[i] EXCEPT !.state = "rejected"]
           ELSE [fetch.req[i] EXCEPT !.state = "fulfilled",
                                     !.value = VenueQuote(i, fetch.amount, fetch.d)]
     IN fetch' = PromiseAll([fetch EXCEPT !.now = fetch.req[i].due, !.req[i] = settled])
  /\ UNCHANGED <<orders, history, job, pc, cur, emitted, faultsLeft, scn, oracle,
                 drawn, rate, call>>
  /\ UNCHANGED subVars

Quoting(failing) ==
  \/ \E amount \in {10, 20}, d \in QuoteDraws, delays \in [1..2 -> Delays],
         fails \in SUBSET failing :
       CallGetAllQuotes(amount, d, delays, fails)
  \/ \E i \in 1..2 : VenueAnswers(i)

InitQuotes ==
  InitWith(Scenario(0, FALSE, {}, 0, 0, {}, {}, {}), 0)
NextQuotes == Quoting({})
SpecQuotes == InitQuotes /\ [][NextQuotes]_vars

\* as SpecQuotes, with venues whose requests may be rejected
Outage(scenario, venues) == [scenario EXCEPT !.failing = venues]
InitOutage ==
  InitWith(Outage(Scenario(0, FALSE, {}, 0, 0, {}, {}, {}), {1, 2}), 0)
NextOutage == Quoting({1, 2})
SpecOutage == InitOutage /\ [][NextOutage]_vars

\* ================================================================ claims
Front(s) == SubSeq(s, 1, Len(s) - 1)
\* what an update is in the lifecycle: the routing update that carries the
\* quotes is told from the bare one
Shape(u) ==
  IF u.status = "routing" /\ u.data.quotes # <<>> THEN "routingQ" ELSE u.status
Shapes(s) == [i \in 1..Len(s) |-> Shape(s[i])]
Lifecycle == <<"pending", "routing", "routingQ", "building", "submitted", "confirmed">>
Placed == DOMAIN orders
JobFinal(o) == job[o].state \in {"completed", "failed"}
\* the status updates relayed on a channel, in the order they were sent
IsRelayed(m) == m.type = "status" /\ m.hasData
Relayed(h) == SelectSeq(inbox[h], IsRelayed)
Has(h, type) == \E i \in 1..Len(inbox[h]) : inbox[h][i].type = type

\* ---- C1: every update the pipeline emits is persisted and delivered to a
\* subscriber that stays registered exactly once and in emission order: the
\* persisted and the delivered sequences equal the emitted one, and nothing
\* but routing is emitted twice in an attempt.
C1_AsClaimed ==
  \A o \in Placed :
    /\ IsPrefix(emitted[o], history[o])
    /\ \A i, j \in 1..Len(emitted[o]) :
         (i < j /\ emitted[o][i].epoch = emitted[o][j].epoch
                /\ emitted[o][i].status = emitted[o][j].status)
           => emitted[o][i].status = "routing"
    /\ \A h \in DOMAIN sock :
         (sock[h].orderId = o /\ IsOpen(h) /\ Registered(o) /\ connections[o] = h)
           => Relayed(h) = [i \in 1..(Len(emitted[o]) - sock[h].from) |->
                              StatusMsg(emitted[o][sock[h].from + i])]

\* ---- C2: the whole persisted history of an order that passes validation
\* is a prefix of the lifecycle, or such a prefix (pending at least) followed
\* by one final failed.
PrefixOrFailed(shapes, least) ==
  \/ IsPrefix(shapes, Lifecycle)
  \/ /\ Len(shapes) > least
     /\ Last(shapes) = "failed"
     /\ IsPrefix(Front(shapes), Lifecycle)

AttemptHistory(o, a) ==
  LET InAttempt(u) == u.epoch = a IN SelectSeq(history[o], InAttempt)

TerminalPersisted(o) == \E i \in 1..Len(history[o]) : history[o][i].status \in Terminal
ConfirmedPersisted(o) == \E i \in 1..Len(history[o]) : history[o][i].status = "confirmed"
Published(o, u) == \E i \in 1..Len(emitted[o]) : emitted[o][i] = u
OnlyPublishesLast(o) ==
  \/ emitted'[o] = emitted[o]
  \/ /\ ~Published(o, Last(history[o]))
     /\ emitted'[o] = Append(emitted[o], Last(history[o]))

LastFailedPersisted(o) ==
  \E i \in 1..Len(history[o]) :
    history[o][i].status = "failed" /\ history[o][i].epoch = MaxRetries
ListenerPublishes(o) ==
  /\ job[o].state = "active" /\ job'[o].state = "failed"
  /\ Len(emitted'[o]) = Len(emitted[o]) + 1
  /\ Front(emitted'[o]) = emitted[o]
  /\ Last(emitted'[o]).status = "failed"

C4_AsClaimed ==
  \A o \in Placed :
    history[o] # <<>> => orders[o].status = Last(history[o]).status

IsPending(u) == u.status = "pending"
C6_AsClaimed ==
  \A o \in Placed :
    ~ValidOrder(orders[o]) =>
      /\ job[o].attemptsStarted <= 1
      /\ Len(SelectSeq(emitted[o], IsPending)) <= 1

\* ---- C7: a subscriber registered before the first attempt starts, that
\* never closes its channel itself, receives the final terminal update of
\* the order.
C7_AsClaimed ==
  \A h \in DOMAIN sock :
    LET o == sock[h].orderId IN
    (sock[h].early /\ sock[h].closedBy # "client" /\ JobFinal(o))
      => \E i \in 1..Len(inbox[h]) : inbox[h][i] = StatusMsg(Last(history[o]))

\* ---- C8: after a terminal status was delivered to a subscriber, once the
\* grace period has elapsed the distributor sends the completion event,
\* closes the channel and removes the registration, whether or not the
\* subscriber closed the channel first.
TeardownStep == timers # <<>> /\ timers' = Tail(timers)
Complete(o) == PlainMsg("complete", o)

C8_AsClaimed ==
  [][TeardownStep =>
       LET t == Head(timers) IN
       /\ \E i \in 1..Len(inbox'[t.conn]) : inbox'[t.conn][i] = Complete(t.orderId)
       /\ sock'[t.conn].readyState # OPEN
       /\ ~ (t.orderId \in DOMAIN connections')]_vars

\* C8 as amended: delivering a terminal status to a subscriber schedules its
\* teardown; when the grace period has elapsed the distributor removes the
\* registration the order then has and, only if that subscriber's channel is
\* still open, sends it the completion event and closes it: a channel that
\* was closed meanwhile gets no completion event.
TerminalDeliveredTo(h) ==
  /\ h \in DOMAIN inbox
  /\ Len(inbox'[h]) = Len(inbox[h]) + 1
  /\ IsRelayed(Last(inbox'[h]))
  /\ Last(inbox'[h]).status \in Terminal

C8_Teardown ==
  [][/\ \A h \in Handles :
          TerminalDeliveredTo(h) =>
            timers' = Append(timers, [orderId |-> sock[h].orderId, conn |-> h, after |-> GraceMs])
     /\ TeardownStep =>
          LET t == Head(timers) IN
          /\ ~ (t.orderId \in DOMAIN connections')
          /\ IF IsOpen(t.conn)
             THEN /\ inbox'[t.conn] = Append(inbox[t.conn], Complete(t.orderId))
                  /\ sock'[t.conn].readyState = CLOSING
             ELSE inbox' = inbox /\ sock' = sock]_vars

C8_Witness ==
  \E h \in DOMAIN sock :
    /\ sock[h].closedBy = "client"
    /\ \E i \in 1..Len(inbox[h]) :
         IsRelayed(inbox[h][i]) /\ inbox[h][i].status \in Terminal
    /\ ~Has(h, "complete")
    /\ timers = <<>>
    /\ ~Registered(sock[h].orderId)

\* ---- C9: on every channel opened for an existing order the first message
\* is the connection confirmation, and once the order is terminal the server
\* sends the completion event on the channel and closes it.
Quiescent ==
  /\ timers = <<>>
  /\ \A o \in Placed : JobFinal(o)
  /\ \A h \in DOMAIN sock : snap[h].phase = "done" /\ sock[h].readyState # CLOSING

C9_AsClaimed ==
  \A h \in DOMAIN sock :
    sock[h].orderId \in Placed =>
      /\ inbox[h][1] = PlainMsg("connected", sock[h].orderId)
      /\ (Quiescent /\ sock[h].closedBy # "client")
           => Has(h, "complete") /\ sock[h].readyState = CLOSED

\* ---- C10: the pipeline does not depend on subscribers.  In a twin run the
\* second order, which has subscribers that connect, are replaced and
\* disconnect, persists the updates the first one (no subscriber at all)
\* persisted with the same outcomes, and ends in the same status; an update
\* published while no subscriber is registered changes nothing in the
\* distributor, and a pipeline that is ready to publish can always do so.
SameUpdate(u, v) == [u EXCEPT !.orderId = 0] = [v EXCEPT !.orderId = 0]
SameHistory(h1, h2) ==
  /\ Len(h1) = Len(h2)
  /\ \A i \in 1..Len(h1) : SameUpdate(h1[i], h2[i])

C10_SubscriberIndependence ==
  /\ [](2 \in Placed =>
          /\ Len(history[2]) <= Len(history[1])
          /\ SameHistory(history[2], SubSeq(history[1], 1, Len(history[2])))
          /\ job[2].attemptsStarted <= job[1].attemptsStarted
          /\ JobFinal(2) =>
               /\ SameHistory(history[2], history[1])
               /\ orders[2].status = orders[1].status
               /\ job[2].state = job[1].state
               /\ job[2].attemptsMade = job[1].attemptsMade)
  /\ [](\A o \in OrderIds : pc[o].at = "emit" => ENABLED EmitUpdate(o))
  /\ [][\A o \in OrderIds :
          (emitted'[o] # emitted[o] /\ ~Registered(o)) =>
            /\ subVars' = subVars
            /\ orders' = orders /\ history' = history]_vars

C10_Witness ==
  /\ 2 \in Placed /\ JobFinal(2)
  /\ Len(history[2]) > 2
  /\ Cardinality(DOMAIN sock) = 2
  /\ \E h \in DOMAIN sock : sock[h].closedBy = "client"
  /\ \E h \in DOMAIN sock : sock[h].closedBy = "server"

\* ---- C11: an order has at most one registration, which names a channel
\* opened for that order; a channel opened for an order takes the order's
\* registration, whoever held it; and an update is relayed only on the
\* channel registered for its order, never on a displaced one.
RelayedOn(h) ==
  /\ h \in DOMAIN inbox
  /\ inbox'[h] # inbox[h]
  /\ IsRelayed(Last(inbox'[h]))
Opened(h) == h \in DOMAIN sock' /\ ~ (h \in DOMAIN sock)

C12_EveryOrderEnds ==
  \A o \in OrderIds :
    (o \in Placed) ~> (JobFinal(o) /\ orders[o].status \in Terminal)

C12_Witness ==
  /\ Placed = OrderIds
  /\ \A o \in OrderIds : JobFinal(o) /\ orders[o].status \in Terminal
  /\ \E o \in OrderIds : orders[o].status = "confirmed"
  /\ \E o \in OrderIds : orders[o].status = "failed" /\ job[o].attemptsMade = MaxRetries

\* ---- C13: never more attempts run together than the concurrency ceiling,
\* and no more attempts than the rate ceiling are started within any window
\* of one minute (TicksPerWindow consecutive ticks).
StartsWithin(t) ==
  Cardinality({i \in 1..Len(rate.starts) :
                 t <= rate.starts[i] /\ rate.starts[i] < t + TicksPerWindow})

C13_AsClaimed ==
  /\ Cardinality(Active) <= scn.concurrency
  /\ \A t \in 0..MaxTicks : StartsWithin(t) <= scn.rate

\* ---- C14: a well-formed order is accepted and queued whatever ceiling has
\* been reached: every well-formed request that is answered is answered 201,
\* with one more order stored and its job waiting in the queue.
AnsweredStep == rate'.reply # rate.reply \/ rate'.hits # rate.hits

C14_AsClaimed ==
  [][(AnsweredStep /\ IntakeAccepts(rate'.reply.req)) =>
       /\ rate'.reply.code = Created
       /\ DOMAIN orders' = DOMAIN orders \cup {NextId}
       /\ job'[NextId].state = "waiting"]_vars

\* ---- C15: no order waits for another one.  A running attempt can always
\* take its next step, a job in backoff can always be queued again, and a
\* queued job can start whenever fewer attempts than the concurrency ceiling
\* are running (and the rate ceiling is not reached), whatever the other
\* orders are doing; the updates of two orders interleave.
CanStart == Cardinality(Active) < scn.concurrency /\ ~RateLimited

C15_Independent ==
  \A o \in Placed :
    /\ job[o].state = "active" => ENABLED Work(o)
    /\ job[o].state = "delayed" => ENABLED PromoteDelayed(o)
    /\ (job[o].state = "waiting" /\ CanStart) => ENABLED StartAttempt(o)

C15_Witness ==
  /\ job[1].state = "active" /\ job[2].state = "active"
  /\ pc[1].at = "quotes" /\ Len(emitted[1]) = 2
  /\ pc[2].at = "swap" /\ Len(emitted[2]) = 4

\* ---- C16: selectBestQuote of a non-empty list returns an element of the
\* list whose amountOut - estimatedGas is maximal, the first such element in
\* input order; of the empty list it throws 'No quotes available'.
FirstMaximal(quotes, i) ==
  /\ \A j \in 1..Len(quotes) : Net(quotes[j]) <= Net(quotes[i])
  /\ \A j \in 1..(i - 1) : Net(quotes[j]) < Net(quotes[i])

C16_FirstMaximal ==
  call.op = "selectBestQuote" =>
    IF Len(call.args) = 0
    THEN ~call.ok /\ call.out = "No quotes available"
    ELSE /\ call.ok
         /\ \E i \in 1..Len(call.args) :
              FirstMaximal(call.args, i) /\ call.out = call.args[i]

C16_Witness ==
  /\ call.op = "selectBestQuote" /\ call.ok
  /\ Len(call.args) = 3
  /\ call.out = call.args[2]
  /\ call.args[3] # call.args[2]
  /\ Net(call.args[3]) = Net(call.args[2])

\* ---- C17: validateOrder throws exactly when a token is empty, the tokens
\* are equal, the amount is <= 0 or the slippage is outside [0, 1]; the error
\* is that of the first of these conditions that holds, in this order; and
\* the call changes no state.
EmptyToken(a) == a[1] = "" \/ a[2] = ""
SameToken(a) == a[1] = a[2]
BadAmount(a) == a[3] <= 0
BadSlippage(a) == a[4] < 0 \/ a[4] > 10000

C17_Validation ==
  /\ [](call.op = "validateOrder" =>
          LET a == call.args IN
          /\ ~call.ok <=> (EmptyToken(a) \/ SameToken(a) \/ BadAmount(a) \/ BadSlippage(a))
          /\ EmptyToken(a) => call.out = "Invalid token addresses"
          /\ (~EmptyToken(a) /\ SameToken(a)) => call.out = "Cannot swap same token"
          /\ (~EmptyToken(a) /\ ~SameToken(a) /\ BadAmount(a))
               => call.out = "Amount must be greater than 0"
          /\ (~EmptyToken(a) /\ ~SameToken(a) /\ ~BadAmount(a) /\ BadSlippage(a))
               => call.out = "Slippage must be between 0 and 1")
  /\ [][call'.op = "validateOrder" =>
          /\ UNCHANGED <<orders, history, job, pc, cur, emitted, faultsLeft, oracle,
                         drawn, rate, fetch>>
          /\ UNCHANGED subVars]_vars

C17_Witness ==
  /\ call.op = "validateOrder" /\ ~call.ok
  /\ call.args[1] # "" /\ call.args[2] # "" /\ call.args[1] # call.args[2]
  /\ call.args[3] = 0 /\ call.args[4] = 10001
  /\ call.out = "Amount must be greater than 0"

\* C19: getAllQuotes starts the requests to both venues before it waits on
\* either, returns only after both have completed, and returns exactly one
\* quote per venue, Raydium's then Meteora's; it completes when the slower of
\* the two venues has answered, not after the sum of the two delays.
Slower(req) == IF req[1].delay >= req[2].delay THEN req[1].delay ELSE req[2].delay
C19_BothAtOnce ==
  /\ fetch.phase # "idle" =>
        /\ Len(fetch.req) = 2
        /\ \A i \in 1..2 : fetch.req[i].startedAt = 0
  /\ fetch.phase = "waiting" => Pending(fetch) # {}
  /\ fetch.phase = "returned" =>
        /\ \A i \in 1..2 : fetch.req[i].state = "fulfilled"
        /\ Len(fetch.out) = 2
        /\ fetch.out[1] = getRaydiumQuote(fetch.amount, fetch.d)
        /\ fetch.out[2] = getMeteorQuote(fetch.amount, fetch.d)
        /\ fetch.out[1].dex = "raydium" /\ fetch.out[2].dex = "meteora"
        /\ fetch.settledAt = Slower(fetch.req)
        /\ fetch.settledAt < fetch.req[1].delay + fetch.req[2].delay
C19_Witness ==
  /\ fetch.phase = "returned"
  /\ fetch.req[1].delay = 249 /\ fetch.req[2].delay = 150
  /\ fetch.settledAt = 249

\* C18: when the quote request of one venue fails and the other succeeds,
\* getAllQuotes still returns the quotes of the venues that succeeded;
\* quoting fails, with 'No quotes available', only when no venue returns a
\* quote.
Succeeded(f) == {i \in 1..Len(f.req) : f.req[i].state = "fulfilled"}
C18_AsClaimed ==
  (fetch.phase # "idle" /\ Pending(fetch) = {}) =>
    IF Succeeded(fetch) = {}
    THEN fetch.phase = "thrown" /\ fetch.error = "No quotes available"
    ELSE /\ fetch.phase = "returned"
         /\ Len(fetch.out) = Cardinality(Succeeded(fetch))
         /\ \A i \in Succeeded(fetch) :
              \E k \in 1..Len(fetch.out) : fetch.out[k] = fetch.req[i].value

\* C20: executeSwap throws the slippage error exactly when
\* executedPrice < quote.price * (1 - slippage); an executed price at or above
\* the quoted price never fails, whatever the tolerance in [0, 1], and a call
\* that fails returns no result.
C20_SlippageCheck ==
  call.op = "executeSwap" =>
    LET a == call.args
        quoted == a.quote.price * 10000
        executedPrice == a.quote.price * (10000 + a.d.pc)
        least == a.quote.price * (10000 - a.slippage)
    IN /\ ~call.ok <=> executedPrice < least
       /\ ~call.ok => call.out = "Slippage tolerance exceeded"
       /\ executedPrice >= quoted => call.ok
       /\ call.ok => /\ call.out.executedPrice = executedPrice
                     /\ call.out.amountOut = a.amount * executedPrice - a.quote.fee * 10000
C20_Witness ==
  /\ call.op = "executeSwap" /\ ~call.ok
  /\ call.args.slippage = 50 /\ call.args.d.pc = -51

\* C21: whenever executeSwap returns, whatever the quote and the tolerance in
\* [0, 1], the executedPrice it returns lies between quote.price * 0.99 and
\* quote.price * 1.01.
C21_PriceBand ==
  (call.op = "executeSwap" /\ call.ok) =>
    /\ call.out.executedPrice >= call.args.quote.price * 9900
    /\ call.out.executedPrice <= call.args.quote.price * 10100
C21_Witness ==
  /\ call.op = "executeSwap" /\ call.ok
  /\ call.args.d.pc = -100 /\ call.args.slippage = 100
  /\ call.out.executedPrice = call.args.quote.price * 9900

\* C22: intake answers a request that lacks tokenIn, tokenOut, amountIn or
\* walletAddress, or whose type is not market, with a client error, storing
\* no order and adding no job; every other request is answered with the
\* identifier of exactly one new order, stored with status pending and with
\* exactly one job waiting for it.
C22_AsClaimed ==
  [][AnsweredStep =>
       LET req == rate'.reply.req
       IN IF IntakeAccepts(req)
          THEN /\ rate'.reply.code = Created
               /\ DOMAIN orders' = DOMAIN orders \cup {NextId}
               /\ orders'[NextId] = NewOrder(NextId, req)
               /\ orders'[NextId].status = "pending"
               /\ job'[NextId].state = "waiting"
               /\ \A o \in DOMAIN orders : orders'[o] = orders[o] /\ job'[o] = job[o]
          ELSE /\ rate'.reply.code \in 400..499
               /\ UNCHANGED <<orders, job>>]_vars

\* C23: a channel opened for an identifier that no order has gets the
\* 'Order not found' error event and is closed by the server at once (unless
\* the client closed it first); no status message is ever sent on it; and
\* once such channels are closed no registration is left for the identifier.
Unknown(h) == h \in DOMAIN sock /\ sock[h].orderId = GhostId
C23_UnknownOrder ==
  /\ \A h \in DOMAIN sock :
       Unknown(h) =>
         /\ ~Has(h, "status")
         /\ (snap[h].phase = "done" /\ sock[h].closedBy # "client") =>
              /\ Last(inbox[h]) = PlainMsg("error", GhostId)
              /\ sock[h].readyState # OPEN
              /\ sock[h].closedBy = "server"
         /\ snap[h].phase # "done" => ~Has(h, "error")
  /\ (\A h \in DOMAIN sock : Unknown(h) => sock[h].readyState = CLOSED) =>
       ~Registered(GhostId)
C23_Witness ==
  /\ Unknown(1) /\ sock[1].readyState = CLOSED /\ sock[1].closedBy = "server"
  /\ inbox[1] = <<PlainMsg("connected", GhostId), PlainMsg("error", GhostId)>>
  /\ ~Registered(GhostId)
  /\ 1 \in DOMAIN orders /\ Len(emitted[1]) > 0

\* C24: whenever a step of an attempt after its pending emission throws, the
\* attempt emits a failed update, persisted and published, that carries the
\* thrown error's message and the job's attempt count, and then hands the
\* same error to the retry mechanism.
PendingEmitted(o) ==
  \E i \in 1..Len(emitted[o]) :
    emitted[o][i].status = "pending" /\ emitted[o][i].epoch = Epoch(o)
FailedOf(o) == Update(o, "failed", Epoch(o), DataFailed(cur[o].error, job[o].attemptsMade))
C24_AsClaimed ==
  \A o \in Placed :
    (pc[o].at = "thrown" /\ PendingEmitted(o)) =>
      /\ history[o] # <<>> /\ Last(history[o]) = FailedOf(o)
      /\ Last(emitted[o]) = FailedOf(o)
      /\ cur[o].thrown = cur[o].error

\* C24 as amended: the catch builds that failed update and writes it; when
\* both writes succeed it is persisted, then published, and the same error
\* is handed on; when a write of the catch fails nothing is persisted or
\* published and the error handed on is that of the write.
InCatch(o) == pc[o].site = "failed" /\ pc[o].at \in {"status", "history", "emit"}
CatchDone(o) == pc[o].site = "failed" /\ pc[o].at = "emit" /\ pc'[o].at = "thrown"
CatchFails(o) ==
  pc[o].site = "failed" /\ pc[o].at \in {"status", "history"} /\ pc'[o].at = "thrown"
C24_Catch ==
  /\ [](\A o \in Placed : InCatch(o) => cur[o].update = FailedOf(o))
  /\ [][\A o \in Placed :
          /\ (pc'[o].at = "thrown" /\ pc[o].at # "thrown") => InCatch(o)
          /\ CatchDone(o) =>
               /\ Last(history[o]) = FailedOf(o)
               /\ emitted'[o] = Append(emitted[o], FailedOf(o))
               /\ cur'[o].thrown = cur[o].error
               /\ UNCHANGED history
          /\ CatchFails(o) =>
               /\ UNCHANGED <<emitted, history>>
               /\ cur'[o].thrown = "db error"]_vars
C24_Witness ==
  /\ pc[1].at = "thrown" /\ PendingEmitted(1)
  /\ cur[1].thrown = "Slippage tolerance exceeded"
  /\ Last(history[1]) = FailedOf(1) /\ Last(emitted[1]) = FailedOf(1)
  /\ Len(history[1]) = 5

SameRows(out, o) ==
  /\ Len(out) = Len(history[o])
  /\ \A i \in 1..Len(out) :
       /\ out[i].orderId = o
       /\ out[i].status = history[o][i].status
       /\ out[i].data = history[o][i].data
Chosen(o) == o \in Placed /\ cur[o].bestQuote # NoQuote
Decision(u) ==
  /\ u.status = "routing"
  /\ Len(u.data.quotes) = Len(Venues)
  /\ u.data.selectedQuote = selectBestQuote(u.data.quotes)
  /\ u.data = DataRouting(u.data.quotes, u.data.selectedQuote)
Bare(u) == u.status = "routing" /\ u.data = EmptyData
InAttempt(o, e) == {i \in 1..Len(emitted[o]) : emitted[o][i].epoch = e}
C29_RoutingTwice ==
  \A o \in Placed :
    /\ \A j \in 1..Len(emitted[o]) :
         LET u == emitted[o][j]
             before == {i \in InAttempt(o, u.epoch) : i < j}
         IN /\ u.status = "building" =>
                 /\ j > 3
                 /\ {i \in before : emitted[o][i].status = "routing"} = {j - 2, j - 1}
                 /\ Bare(emitted[o][j - 2])
                 /\ Decision(emitted[o][j - 1])
                 /\ u.data.dex = emitted[o][j - 1].data.selectedQuote.dex
            /\ (u.status = "routing" /\ ~Bare(u)) =>
                 /\ j > 1 /\ Decision(u)
                 /\ Bare(emitted[o][j - 1])
                 /\ emitted[o][j - 1].epoch = u.epoch
    \* quotes obtained, the decision not yet published: one routing so far
    /\ (pc[o].site = "routingQ" /\ pc[o].at \in {"status", "history", "emit"}) =>
         /\ Decision(cur[o].update)
         /\ cur[o].update.data.quotes = cur[o].quotes
         /\ Len(emitted[o]) > 0 /\ Bare(Last(emitted[o]))
         /\ Last(emitted[o]).epoch = cur[o].update.epoch
C29_Witness ==
  /\ Len(emitted[1]) >= 8
  /\ Last(emitted[1]).status = "building" /\ Last(emitted[1]).epoch = 2
  /\ emitted[1][Len(emitted[1]) - 1].data.selectedQuote.dex = "meteora"

\* C30: every status update delivered to a subscriber has been written to
\* the persisted history of its order before it is published: the live
\* stream never contains an update that is absent from the history.
Persisted(m) ==
  \E k \in 1..Len(history[m.orderId]) : StatusMsg(history[m.orderId][k]) = m
C30_AsClaimed ==
  \A h \in DOMAIN inbox :
    \A i \in 1..Len(inbox[h]) : IsRelayed(inbox[h][i]) => Persisted(inbox[h][i])

\* C31: within one attempt each stage (validateOrder, getAllQuotes and
\* selectBestQuote, executeSwap) is invoked at most once: processOrder only
\* moves forward through its steps.  Only the queue starts an attempt again,
\* and every attempt starts at the pending step with fresh locals.
SiteRank(site) ==
  CASE site = "pending" -> 1 [] site = "routing" -> 2 [] site = "routingQ" -> 3
    [] site = "building" -> 4 [] site = "submitted" -> 5 [] site = "confirmed" -> 6
    [] site = "failed" -> 7 [] OTHER -> 0
AtRank(at) ==
  CASE at = "status" -> 1 [] at = "history" -> 2 [] at = "emit" -> 3
    [] at \in {"quotes", "swap", "confirmWait"} -> 4
    [] at \in {"returned", "thrown"} -> 5 [] OTHER -> 0
Position(p) == SiteRank(p.site) * 10 + AtRank(p.at)
C31_OncePerAttempt ==
  [][\A o \in OrderIds :
       /\ (pc[o] # Idle /\ pc'[o] # Idle /\ <<pc[o], cur[o]>> # <<pc'[o], cur'[o]>>) =>
            /\ Position(pc'[o]) > Position(pc[o])
            /\ job'[o].attemptsStarted = job[o].attemptsStarted
       /\ job'[o].attemptsStarted # job[o].attemptsStarted =>
            /\ pc[o] = Idle /\ job[o].state = "waiting"
            /\ job'[o].attemptsStarted = job[o].attemptsMade + 1
            /\ pc'[o] = [site |-> "pending", at |-> "status"]
            /\ cur'[o] = [NoLocals EXCEPT !.update =
                            Update(o, "pending", job'[o].attemptsStarted, EmptyData)]
       /\ (pc[o] = Idle /\ pc'[o] # Idle) =>
            job'[o].attemptsStarted = job[o].attemptsStarted + 1]_vars
\* a second attempt is under way after a first one that failed in executeSwap
C31_Witness ==
  /\ job[1].attemptsStarted = 2 /\ pc[1].at = "swap"
  /\ \E i \in 1..Len(emitted[1]) :
       emitted[1][i].epoch = 1 /\ emitted[1][i].status = "building"

\* C32: after intake the pipeline changes only the status (and updated_at)
\* of an order: its identifier, kind, tokens, input amount, slippage and
\* wallet are the same in every later state, for any number of attempts.
C32_OnlyStatus ==
  [][\A o \in DOMAIN orders :
       /\ o \in DOMAIN orders'
       /\ [orders'[o] EXCEPT !.status = orders[o].status] = orders[o]
       /\ orders'[o].id = o]_vars
\* an order that was attempted three times and whose status was rewritten
C32_Witness ==
  /\ 1 \in DOMAIN orders /\ orders[1].status = "failed"
  /\ job[1].state = "failed" /\ job[1].attemptsMade = MaxRetries
  /\ \E i \in 1..Len(history[1]) : history[1][i].status = "building"

\* C33: each venue's quote has fee = amount * the fee rate configured for
\* that venue and amountOut = amount * price - fee, with price > 0 and
\* estimatedGas a positive integer, and carries the venue's identifier.
FeeRate(venue) == IF venue = "raydium" THEN RaydiumFeeBp ELSE MeteoraFeeBp
WellFormedQuote(q, venue, amount) ==
  /\ q.dex = venue
  /\ q.fee = amount * FeeRate(venue)
  /\ q.amountOut = amount * q.price - q.fee
  /\ q.price > 0
  /\ q.estimatedGas \in Nat \ {0}
C33_Quotes ==
  /\ \A i \in 1..Len(fetch.req) :
       fetch.req[i].state = "fulfilled" =>
         WellFormedQuote(fetch.req[i].value, Venues[i], fetch.amount)
  /\ fetch.phase = "returned" =>
       \A i \in 1..Len(Venues) : WellFormedQuote(fetch.out[i], Venues[i], fetch.amount)
C33_Witness ==
  /\ fetch.phase = "returned" /\ fetch.amount = 20
  /\ fetch.out[1].fee = 600 /\ fetch.out[2].fee = 400

\* C34: each attempt emits pending first and then either failed directly
\* (validation failure), or routing, routing with quotes and building
\* followed by either failed (execution rejected) or submitted and then
\* confirmed; submitted is emitted only after executeSwap has succeeded and,
\* when the persistence writes succeed, failed follows neither submitted nor
\* confirmed within the attempt.
IsInAttempt(u, e) == u.epoch = e
EmittedIn(o, e) == SelectSeq(emitted[o], LAMBDA u : IsInAttempt(u, e))
AttemptShapes ==
  {SubSeq(Lifecycle, 1, n) : n \in 0..Len(Lifecycle)}
    \cup {<<"pending", "failed">>,
          <<"pending", "routing", "routingQ", "building", "failed">>}
C34_AsClaimed ==
  \A o \in Placed :
    /\ \A e \in 1..job[o].attemptsStarted : Shapes(EmittedIn(o, e)) \in AttemptShapes
    /\ \A i \in 1..Len(emitted[o]) :
         emitted[o][i].status = "submitted" => emitted[o][i].data.txHash # "-"

\* C35: once confirmed has been persisted for an order, no further attempt
\* runs for it and no further update is persisted or published for it (the
\* confirmed update itself is published right after it is persisted); the
\* history of an order holds at most one confirmed update.
ConfirmedAt(o) == {i \in 1..Len(history[o]) : history[o][i].status = "confirmed"}
C35_ConfirmedOnce ==
  /\ [](\A o \in OrderIds :
          /\ Cardinality(ConfirmedAt(o)) <= 1
          /\ ConfirmedAt(o) \subseteq {Len(history[o])}
          /\ ConfirmedAt(o) # {} =>
               /\ job[o].state \in {"active", "completed"}
               /\ pc[o] \in {[site |-> "confirmed", at |-> "emit"],
                             [site |-> "confirmed", at |-> "returned"], Idle})
  /\ [][\A o \in OrderIds :
          ConfirmedAt(o) # {} =>
            /\ job'[o].attemptsStarted = job[o].attemptsStarted
            /\ history'[o] = history[o]
            /\ orders'[o] = orders[o]
            /\ emitted'[o] # emitted[o] =>
                 /\ pc[o] = [site |-> "confirmed", at |-> "emit"]
                 /\ emitted'[o] = Append(emitted[o], Last(history[o]))]_vars
\* confirmed in a second attempt, after a first one that failed
C35_Witness ==
  /\ ConfirmedAt(1) # {} /\ job[1].state = "completed" /\ job[1].attemptsMade = 2
  /\ Last(emitted[1]).status = "confirmed"

\* C36: within one attempt the venue carried by the building, submitted and
\* confirmed updates is the venue of that attempt's selected quote, the
\* transaction id in confirmed is the one in submitted, and executeSwap is
\* called with that selected quote and the order's own amount and slippage
\* (seen in what it returns: the executed price is a movement of the
\* selected quote's price within the order's tolerance, and the amount out
\* is the order's amount at that price less the selected quote's fee).
Selected(o, e) ==
  LET s == EmittedIn(o, e)
  IN {s[i].data.selectedQuote : i \in {j \in 1..Len(s) : Shape(s[j]) = "routingQ"}}
C36_SameQuote ==
  \A o \in Placed :
    \A i \in 1..Len(emitted[o]) :
      LET u == emitted[o][i] IN
      /\ u.status \in {"building", "submitted", "confirmed"} =>
           \E q \in Selected(o, u.epoch) :
             Selected(o, u.epoch) = {q} /\ u.data.dex = q.dex
      /\ u.status = "submitted" => u.data.txHash # "-"
      /\ u.status = "confirmed" =>
           /\ i > 1 /\ emitted[o][i - 1].status = "submitted"
           /\ emitted[o][i - 1].epoch = u.epoch
           /\ emitted[o][i - 1].data.txHash = u.data.txHash
           /\ \E q \in Selected(o, u.epoch) :
                /\ \E d \in scn.swapDraws :
                     u.data.executedPrice = q.price * (10000 + d.pc)
                /\ u.data.executedPrice >= q.price * (10000 - orders[o].slippage)
                /\ u.data.amountOut =
                     orders[o].amountIn * u.data.executedPrice - q.fee * 10000
\* confirmed on Meteora, the second quote of the list
C36_Witness ==
  /\ Len(emitted[1]) > 0 /\ Last(emitted[1]).status = "confirmed"
  /\ Last(emitted[1]).data.dex = "meteora"
  /\ orders[1].slippage = DefaultSlippage
  /\ \E q \in Selected(1, Last(emitted[1]).epoch) :
       Last(emitted[1]).data.executedPrice < q.price * 10000

\* C37: a registration is removed only on behalf of the channel it refers
\* to: neither the close or error of a displaced channel nor the teardown
\* scheduled for an earlier subscriber unregisters a newer subscriber of the
\* same order whose channel is still open.
C37_AsClaimed ==
  [][\A o \in DOMAIN connections :
       LET h == connections[o] IN
       (IsOpen(h) /\ sock'[h].readyState = OPEN) => o \in DOMAIN connections']_vars

\* C38: a subscriber registered for order A receives only messages whose
\* orderId is A: an update of another order is never delivered on its
\* channel, however the two orders' pipelines, subscriptions and teardowns
\* interleave.
C38_OwnOrderOnly ==
  \A h \in DOMAIN inbox :
    \A i \in 1..Len(inbox[h]) : inbox[h][i].orderId = sock[h].orderId
\* the subscriber of one order is sent an update of it after the other order
\* has emitted updates, both orders being processed
C38_Witness ==
  \E h \in DOMAIN sock :
    /\ IsOpen(h) /\ Len(inbox[h]) > 0 /\ IsRelayed(Last(inbox[h]))
    /\ \E b \in OrderIds \ {sock[h].orderId} :
         /\ Len(emitted[b]) > 1 /\ job[b].state = "active"
         /\ job[sock[h].orderId].state = "active"

\* C39: the simulated price never moves against the order by more than 1%
\* of the quoted price, so an order with valid parameters and a slippage
\* tolerance of at least 0.01 (the default) never fails execution: with
\* persistence available its first attempt ends in confirmed and no retry
\* ever occurs.
Tolerant(o) ==
  /\ o \in Placed /\ ValidOrder(orders[o]) /\ orders[o].slippage >= DefaultSlippage
C39_NeverFails ==
  \A o \in OrderIds :
    Tolerant(o) =>
      /\ job[o].attemptsStarted <= 1
      /\ job[o].state \in {"waiting", "active", "completed"}
      /\ pc[o].site # "failed"
      /\ \A i \in 1..Len(emitted[o]) : emitted[o][i].status # "failed"
      /\ orders[o].status # "failed"
      /\ job[o].state = "completed" =>
           /\ Shapes(history[o]) = Lifecycle
           /\ Shapes(emitted[o]) = Lifecycle
\* confirmed at the largest movement against the order, 1% below the quote
C39_Witness ==
  /\ Tolerant(1) /\ orders[1].slippage = DefaultSlippage
  /\ job[1].state = "completed"
  /\ Last(history[1]).data.executedPrice =
       history[1][3].data.selectedQuote.price * (10000 - DefaultSlippage)

\* C40: the status messages received on one channel never go backwards: the
\* current-status snapshot read after connect is never delivered after a
\* live update that reflects a later step of the same order.  Stated for the
\* orders that run a single attempt, whose statuses only move forward.
StepOf(status) ==
  CASE status = "pending" -> 1 [] status = "routing" -> 2 [] status = "building" -> 3
    [] status = "submitted" -> 4 [] status = "confirmed" -> 5 [] OTHER -> 0
IsSnapshot(m) == m.type = "status" /\ ~m.hasData
C40_AsClaimed ==
  \A h \in DOMAIN inbox :
    Tolerant(sock[h].orderId) =>
      \A i, j \in 1..Len(inbox[h]) :
        (i < j /\ IsRelayed(inbox[h][i]) /\ IsSnapshot(inbox[h][j]))
          => StepOf(inbox[h][j].status) >= StepOf(inbox[h][i].status)

====
